---- MODULE Spec2Model ----
(***************************************************************************)
(* Model of @omochikun/gamification-level (src/src/index.ts).              *)
(*                                                                         *)
(* The library is a set of pure functions.  Each exported function is an   *)
(* operator below, translated from its body, and each has one action that  *)
(* calls it on inputs drawn from bounded sets and records the call and its *)
(* return value in the state.                                              *)
(*                                                                         *)
(* Numbers.  XP values, levels and baseXP are integers.  The exponent is   *)
(* held in HALVES: the value 3 stands for the JavaScript number 1.5, so    *)
(* the exponents of the model are 0, 0.5, 1, 1.5, 2, ...  For these        *)
(* Math.floor(baseXP * Math.pow(level, exponent)) is computed exactly, as  *)
(* an integer square root, with no product that leaves 32 bits.            *)
(*                                                                         *)
(* Optional values.  An omitted argument or property (undefined) and null  *)
(* are both the empty sequence None; a present value v is Some(v) = <<v>>. *)
(***************************************************************************)
EXTENDS Integers, Sequences, FiniteSets, TLC

VARIABLES
    op,          \* the exported function called last ("none" before any call)
    level,       \* its `level` argument
    currentXP,   \* its `currentXP` argument (`totalXP` of calculateLevel)
    options,     \* its `options` argument
    customRanks, \* its `customRanks` argument
    result,      \* the value it returned
    pc,          \* where a calculateLevel that runs step by step stands
    search,      \* its locals `low`, `high` and `currentLevel`
    iterations,  \* the iterations of its while loop so far
    addedXP,     \* the `addedXP` argument of checkLevelUp
    awards,      \* the XP awards made so far
    defaultOptions, \* the contents of the module's object DEFAULT_OPTIONS
    defaultRanks,   \* the contents of the module's array DEFAULT_RANKS
    remembered   \* an earlier call, with the value it returned (None: no call)

vars == <<op, level, currentXP, options, customRanks, result,
          pc, search, iterations, addedXP, awards,
          defaultOptions, defaultRanks, remembered>>

(***************************************************************************)
(* Bounds of the inputs.                                                   *)
(***************************************************************************)
MaxBaseXP == 2       \* explicit baseXP ranges over 1..MaxBaseXP
MaxExponent2 == 4    \* explicit exponent ranges over 0, 0.5, .. MaxExponent2/2
MaxMaxLevel == 3     \* explicit maxLevel ranges over 1..MaxMaxLevel
MaxXP == 10          \* XP arguments range over -2..MaxXP and level boundaries
MaxLevelArg == 4     \* level arguments range over -2..MaxLevelArg and the cap

None == <<>>
Some(v) == <<v>>

(***************************************************************************)
(* Exact integer arithmetic.                                               *)
(***************************************************************************)
RECURSIVE Pow(_, _)
Pow(b, k) == IF k = 0 THEN 1 ELSE b * Pow(b, k - 1)

\* x/y <= z/w for naturals x, z and positive y, w, by continued fractions
\* (no product is formed).
RECURSIVE FracLeq(_, _, _, _)
FracLeq(x, y, z, w) ==
    LET qx == x \div y
        qz == z \div w
        rx == x % y
        rz == z % w
    IN  IF qx # qz THEN qx < qz
        ELSE IF rx = 0 THEN TRUE
        ELSE IF rz = 0 THEN FALSE
        ELSE FracLeq(w, rz, y, rx)

\* n * n <= a * b for naturals n, a, b.
SqLeq(n, a, b) ==
    IF n = 0 THEN TRUE
    ELSE IF a = 0 \/ b = 0 THEN FALSE
    ELSE FracLeq(n, a, b, n)

\* The largest n in lo..hi with n * n <= a * b (lo satisfies it).
RECURSIVE SqrtSearch(_, _, _, _)
SqrtSearch(lo, hi, a, b) ==
    IF lo >= hi THEN lo
    ELSE LET mid == (lo + hi + 1) \div 2
         IN  IF SqLeq(mid, a, b) THEN SqrtSearch(mid, hi, a, b)
             ELSE SqrtSearch(lo, mid - 1, a, b)

\* floor(sqrt(a * b)) for naturals a <= b.
IsqrtProd(a, b) == SqrtSearch(0, b, a, b)

\* FloorPow with the power dividing baseXP where it should multiply it.
FloorPowInverse(baseXP, lvl, exponent2) ==
    LET k == Pow(lvl, exponent2 \div 2)
    IN  IF exponent2 % 2 = 0 THEN baseXP \div k ELSE IsqrtProd(baseXP, baseXP) \div k

\* Math.floor(baseXP * Math.pow(lvl, exponent)), the exponent in halves:
\* with p = baseXP * lvl^k, an exponent k is p and an exponent k + 0.5 is
\* floor(p * sqrt(lvl)) = floor(sqrt(p * (p * lvl))).
FloorPow(baseXP, lvl, exponent2) ==
    LET p == baseXP * Pow(lvl, exponent2 \div 2)
    IN  IF exponent2 % 2 = 0 THEN p ELSE IsqrtProd(p, p * lvl)

(***************************************************************************)
(* Options.                                                                *)
(***************************************************************************)
DEFAULT_OPTIONS == [baseXP |-> 100, exponent |-> 3, maxLevel |-> 100]

\* { ...DEFAULT_OPTIONS, ...options }: a property the caller gives overrides
\* the default, an omitted one leaves it.
Spread(defaults, given) ==
    [f \in DOMAIN defaults |-> IF given[f] # None THEN given[f][1] ELSE defaults[f]]

(***************************************************************************)
(* getRequiredXP                                                           *)
(***************************************************************************)
\* getRequiredXP without the clamp of the level to maxLevel.
GetRequiredXPUnclamped(lvl, opt) ==
    LET opts == Spread(defaultOptions, opt)
    IN  IF lvl < 1 THEN 0
        ELSE FloorPow(opts.baseXP, lvl, opts.exponent)

GetRequiredXP(lvl, opt) ==
    LET opts == Spread(defaultOptions, opt)
        capped == IF lvl > opts.maxLevel THEN opts.maxLevel ELSE lvl
    IN  IF lvl < 1 THEN 0
        ELSE FloorPow(opts.baseXP, capped, opts.exponent)

(***************************************************************************)
(* calculateLevel: the binary search, one iteration per SearchStep.        *)
(***************************************************************************)
\* The iteration with requiredXP < totalXP for requiredXP <= totalXP.
SearchStepStrict(s, totalXP, opt) ==
    LET mid == (s.low + s.high) \div 2
        requiredXP == GetRequiredXP(mid, opt)
    IN  IF requiredXP < totalXP
        THEN [low |-> mid + 1, high |-> s.high, currentLevel |-> mid]
        ELSE [low |-> s.low, high |-> mid - 1, currentLevel |-> s.currentLevel]

\* The iteration probing low where it should probe the middle.
SearchStepLinear(s, totalXP, opt) ==
    LET mid == s.low
        requiredXP == GetRequiredXP(mid, opt)
    IN  IF requiredXP <= totalXP
        THEN [low |-> mid + 1, high |-> s.high, currentLevel |-> mid]
        ELSE [low |-> s.low, high |-> mid - 1, currentLevel |-> s.currentLevel]

\* The iteration moving low without recording the level it reached.
SearchStepNoRecord(s, totalXP, opt) ==
    LET mid == (s.low + s.high) \div 2
        requiredXP == GetRequiredXP(mid, opt)
    IN  IF requiredXP <= totalXP
        THEN [low |-> mid + 1, high |-> s.high, currentLevel |-> s.currentLevel]
        ELSE [low |-> s.low, high |-> mid - 1, currentLevel |-> s.currentLevel]

SearchStep(s, totalXP, opt) ==
    LET mid == (s.low + s.high) \div 2
        requiredXP == GetRequiredXP(mid, opt)
    IN  IF requiredXP <= totalXP
        THEN [low |-> mid + 1, high |-> s.high, currentLevel |-> mid]
        ELSE [low |-> s.low, high |-> mid - 1, currentLevel |-> s.currentLevel]

RECURSIVE BinarySearch(_, _, _)

\* The loop returning low where it should return currentLevel.
BinarySearchReturnsLow(s, totalXP, opt) ==
    IF s.low <= s.high
    THEN BinarySearch(SearchStep(s, totalXP, opt), totalXP, opt)
    ELSE s.low

BinarySearch(s, totalXP, opt) ==
    IF s.low <= s.high
    THEN BinarySearch(SearchStep(s, totalXP, opt), totalXP, opt)
    ELSE s.currentLevel

\* calculateLevel with currentLevel starting at 0.
CalculateLevelFromZero(totalXP, opt) ==
    LET opts == Spread(defaultOptions, opt)
    IN  IF totalXP < 0 THEN 1
        ELSE BinarySearch([low |-> 1, high |-> opts.maxLevel, currentLevel |-> 0],
                          totalXP, opt)

CalculateLevel(totalXP, opt) ==
    LET opts == Spread(defaultOptions, opt)
    IN  IF totalXP < 0 THEN 1
        ELSE BinarySearch([low |-> 1, high |-> opts.maxLevel, currentLevel |-> 1],
                          totalXP, opt)

(***************************************************************************)
(* JavaScript numbers that need not be integers: the quotient of           *)
(* getXPProgress.  A number is num/den in lowest terms with den >= 0;      *)
(* den = 0 is Infinity (num = 1), -Infinity (num = -1) or NaN (num = 0).   *)
(* The quotient is exact where the code rounds to a double: rounding is    *)
(* monotone and 0 and 100 are doubles, so a result is 0, 100 or within     *)
(* [0, 100] here exactly when it is in the code.                           *)
(***************************************************************************)
Abs(a) == IF a < 0 THEN -a ELSE a
Sign(a) == IF a < 0 THEN -1 ELSE IF a > 0 THEN 1 ELSE 0

RECURSIVE GCD(_, _)
GCD(a, b) == IF b = 0 THEN a ELSE GCD(b, a % b)

Num(a) == [num |-> a, den |-> 1]
NaN == [num |-> 0, den |-> 0]
IsNaN(q) == q.den = 0 /\ q.num = 0

\* a / b
Div(a, b) ==
    IF b = 0 THEN [num |-> Sign(a), den |-> 0]
    ELSE LET g == GCD(Abs(a), Abs(b))
         IN  [num |-> (Sign(b) * a) \div g, den |-> Abs(b) \div g]

\* q * k for an integer k > 0
Times(q, k) ==
    IF q.den = 0 THEN q
    ELSE LET g == GCD(k, q.den)
         IN  [num |-> q.num * (k \div g), den |-> q.den \div g]

\* Math.max(k, q) and Math.min(k, q) for an integer k: NaN if q is NaN.
MathMax(k, q) ==
    IF IsNaN(q) THEN NaN
    ELSE IF q.num < k * q.den \/ (q.den = 0 /\ q.num < 0) THEN Num(k) ELSE q

MathMin(k, q) ==
    IF IsNaN(q) THEN NaN
    ELSE IF q.num > k * q.den \/ (q.den = 0 /\ q.num > 0) THEN Num(k) ELSE q

(***************************************************************************)
(* getXPProgress                                                           *)
(***************************************************************************)
\* getXPProgress without the Math.max(0, ...) clamp.
GetXPProgressNoFloor(xp, opt) ==
    LET currentLevel == CalculateLevel(xp, opt)
        currentLevelXP == GetRequiredXP(currentLevel, opt)
        nextLevelXP == GetRequiredXP(currentLevel + 1, opt)
        cap == IF opt.maxLevel # None /\ opt.maxLevel[1] # 0
               THEN opt.maxLevel[1] ELSE defaultOptions.maxLevel
        xpInCurrentLevel == xp - currentLevelXP
        xpNeededForNext == nextLevelXP - currentLevelXP
    IN  IF currentLevel >= cap THEN Num(100)
        ELSE MathMin(100, Times(Div(xpInCurrentLevel, xpNeededForNext), 100))

\* getXPProgress measuring the XP of the level from 0, not from the level's
\* own requirement.
GetXPProgressFromZero(xp, opt) ==
    LET currentLevel == CalculateLevel(xp, opt)
        currentLevelXP == GetRequiredXP(currentLevel, opt)
        nextLevelXP == GetRequiredXP(currentLevel + 1, opt)
        cap == IF opt.maxLevel # None /\ opt.maxLevel[1] # 0
               THEN opt.maxLevel[1] ELSE defaultOptions.maxLevel
        xpInCurrentLevel == xp
        xpNeededForNext == nextLevelXP - currentLevelXP
    IN  IF currentLevel >= cap THEN Num(100)
        ELSE MathMin(100, MathMax(0, Times(Div(xpInCurrentLevel, xpNeededForNext), 100)))

\* getXPProgress answering 100 when the next level needs no more XP than the
\* current one.
GetXPProgressGuarded(xp, opt) ==
    LET currentLevel == CalculateLevel(xp, opt)
        currentLevelXP == GetRequiredXP(currentLevel, opt)
        nextLevelXP == GetRequiredXP(currentLevel + 1, opt)
        cap == IF opt.maxLevel # None /\ opt.maxLevel[1] # 0
               THEN opt.maxLevel[1] ELSE defaultOptions.maxLevel
        xpInCurrentLevel == xp - currentLevelXP
        xpNeededForNext == nextLevelXP - currentLevelXP
    IN  IF currentLevel >= cap \/ xpNeededForNext <= 0 THEN Num(100)
        ELSE MathMin(100, MathMax(0, Times(Div(xpInCurrentLevel, xpNeededForNext), 100)))

GetXPProgress(xp, opt) ==
    LET currentLevel == CalculateLevel(xp, opt)
        currentLevelXP == GetRequiredXP(currentLevel, opt)
        nextLevelXP == GetRequiredXP(currentLevel + 1, opt)
        \* options.maxLevel || DEFAULT_OPTIONS.maxLevel
        cap == IF opt.maxLevel # None /\ opt.maxLevel[1] # 0
               THEN opt.maxLevel[1] ELSE defaultOptions.maxLevel
        xpInCurrentLevel == xp - currentLevelXP
        xpNeededForNext == nextLevelXP - currentLevelXP
    IN  IF currentLevel >= cap THEN Num(100)
        ELSE MathMin(100, MathMax(0, Times(Div(xpInCurrentLevel, xpNeededForNext), 100)))

(***************************************************************************)
(* getXPToNextLevel                                                        *)
(***************************************************************************)
\* getXPToNextLevel reading the requirement of the current level, not of the
\* next one.
GetXPToNextLevelOffByOne(xp, opt) ==
    LET currentLevel == CalculateLevel(xp, opt)
        nextLevelXP == GetRequiredXP(currentLevel, opt)
    IN  IF nextLevelXP - xp > 0 THEN nextLevelXP - xp ELSE 0

GetXPToNextLevel(xp, opt) ==
    LET currentLevel == CalculateLevel(xp, opt)
        nextLevelXP == GetRequiredXP(currentLevel + 1, opt)
    IN  IF nextLevelXP - xp > 0 THEN nextLevelXP - xp ELSE 0

(***************************************************************************)
(* Ranks.                                                                  *)
(***************************************************************************)
\* DEFAULT_RANKS with level 11 in no range.
DEFAULT_RANKS_Gap ==
    << [rank |-> "trainee", minLevel |-> 1, maxLevel |-> 10, title |-> "Trainee"],
       [rank |-> "junior", minLevel |-> 12, maxLevel |-> 25, title |-> "Junior"],
       [rank |-> "intermediate", minLevel |-> 26, maxLevel |-> 50, title |-> "Intermediate"],
       [rank |-> "senior", minLevel |-> 51, maxLevel |-> 75, title |-> "Senior"],
       [rank |-> "expert", minLevel |-> 76, maxLevel |-> 90, title |-> "Expert"],
       [rank |-> "master", minLevel |-> 91, maxLevel |-> 100, title |-> "Master"] >>

DEFAULT_RANKS ==
    << [rank |-> "trainee", minLevel |-> 1, maxLevel |-> 10, title |-> "Trainee"],
       [rank |-> "junior", minLevel |-> 11, maxLevel |-> 25, title |-> "Junior"],
       [rank |-> "intermediate", minLevel |-> 26, maxLevel |-> 50, title |-> "Intermediate"],
       [rank |-> "senior", minLevel |-> 51, maxLevel |-> 75, title |-> "Senior"],
       [rank |-> "expert", minLevel |-> 76, maxLevel |-> 90, title |-> "Expert"],
       [rank |-> "master", minLevel |-> 91, maxLevel |-> 100, title |-> "Master"] >>

\* Array.prototype.find from index i on: the first element of ranks whose
\* range holds lvl, or None.
RECURSIVE Find(_, _, _)

\* find keeping the last element whose range holds lvl, not the first.
FindLast(ranks, lvl, i) ==
    IF i > Len(ranks) THEN None
    ELSE LET later == Find(ranks, lvl, i + 1)
         IN  IF later # None THEN later
             ELSE IF lvl >= ranks[i].minLevel /\ lvl <= ranks[i].maxLevel
                  THEN Some(ranks[i])
                  ELSE None

Find(ranks, lvl, i) ==
    IF i > Len(ranks) THEN None
    ELSE IF lvl >= ranks[i].minLevel /\ lvl <= ranks[i].maxLevel THEN Some(ranks[i])
    ELSE Find(ranks, lvl, i + 1)

\* customRanks || DEFAULT_RANKS: an array, even an empty one, is truthy.
GetRank(lvl, custom) ==
    LET ranks == IF custom # None THEN custom[1] ELSE defaultRanks
    IN  Find(ranks, lvl, 1)

\* rank?.title || ''
GetRankTitle(lvl, custom) ==
    LET rank == GetRank(lvl, custom)
    IN  IF rank # None /\ rank[1].title # "" THEN rank[1].title ELSE ""

(***************************************************************************)
(* getLevelInfo                                                            *)
(***************************************************************************)
GetLevelInfo(xp, opt, custom) ==
    LET lvl == CalculateLevel(xp, opt)
        requiredXP == GetRequiredXP(lvl, opt)
        nextLevelXP == GetRequiredXP(lvl + 1, opt)
        progress == GetXPProgress(xp, opt)
        xpToNext == GetXPToNextLevel(xp, opt)
        rank == GetRank(lvl, custom)
    IN  [level |-> lvl,
         currentXP |-> xp,
         requiredXP |-> requiredXP,
         nextLevelXP |-> nextLevelXP,
         progress |-> progress,
         xpToNextLevel |-> xpToNext,
         \* rank?.rank || null, rank?.title || null: '' is falsy
         rank |-> IF rank # None /\ rank[1].rank # "" THEN Some(rank[1].rank) ELSE None,
         rankTitle |-> IF rank # None /\ rank[1].title # "" THEN Some(rank[1].title) ELSE None]

(***************************************************************************)
(* checkLevelUp of the helper utilities: the levels before and after an    *)
(* award of addedXP.                                                        *)
(***************************************************************************)
\* checkLevelUp with the subtraction the other way round.
CheckLevelUpSwapped(previousXP, added, opt) ==
    LET previousLevel == CalculateLevel(previousXP, opt)
        newXP == previousXP + added
        newLevel == CalculateLevel(newXP, opt)
        levelsGained == previousLevel - newLevel
    IN  [leveledUp |-> levelsGained > 0,
         previousLevel |-> previousLevel,
         newLevel |-> newLevel,
         levelsGained |-> levelsGained]

CheckLevelUp(previousXP, added, opt) ==
    LET previousLevel == CalculateLevel(previousXP, opt)
        newXP == previousXP + added
        newLevel == CalculateLevel(newXP, opt)
        levelsGained == newLevel - previousLevel
    IN  [leveledUp |-> levelsGained > 0,
         previousLevel |-> previousLevel,
         newLevel |-> newLevel,
         levelsGained |-> levelsGained]

(***************************************************************************)
(* Inputs.                                                                 *)
(***************************************************************************)
Opt(S) == {None} \cup {Some(v) : v \in S}

NoOptions == [baseXP |-> None, exponent |-> None, maxLevel |-> None]

\* The options objects of the calls: every combination of a given or omitted
\* baseXP and exponent with a given maxLevel, over the bounded ranges, and
\* the options objects the test-suite passes (which leave maxLevel to its
\* default of 100, or set it to 10 or 50).
OptionsInputs ==
    [baseXP : Opt(1..MaxBaseXP),
     exponent : Opt(0..MaxExponent2),
     maxLevel : {Some(v) : v \in 1..MaxMaxLevel}]
      \cup {NoOptions,
            [NoOptions EXCEPT !.baseXP = Some(100), !.exponent = Some(2)],
            [NoOptions EXCEPT !.maxLevel = Some(10)],
            [NoOptions EXCEPT !.maxLevel = Some(50)]}

\* level arguments: a small range around 1, the levels around and above the
\* cap, and the levels 5 and 10 of the test-suite.
LevelInputs(opt) ==
    LET cap == Spread(DEFAULT_OPTIONS, opt).maxLevel
    IN  (-2..MaxLevelArg) \cup {cap - 1, cap, cap + 1, cap + 50} \cup {5, 10}

\* XP arguments: a small range around zero, every level boundary of the
\* curve with its two neighbours, and the 500 and 1000 XP of the test-suite
\* and of the README.
XPInputs(opt) ==
    LET cap == Spread(DEFAULT_OPTIONS, opt).maxLevel
    IN  (-2..MaxXP)
          \cup {GetRequiredXP(l, opt) + d : l \in 1..cap, d \in {-1, 0, 1}}
          \cup {500, 1000}

\* The customRanks arguments: omitted; the table of the test-suite; a table
\* whose ranges overlap and leave levels unmatched; a table with an empty
\* title and an empty identifier; the empty table.
RankTableInputs ==
    {None,
     Some(<< [rank |-> "beginner", minLevel |-> 1, maxLevel |-> 20, title |-> "Beginner"],
             [rank |-> "pro", minLevel |-> 21, maxLevel |-> 100, title |-> "Professional"] >>),
     Some(<< [rank |-> "low", minLevel |-> 1, maxLevel |-> 3, title |-> "Low"],
             [rank |-> "mid", minLevel |-> 2, maxLevel |-> 5, title |-> "Mid"] >>),
     Some(<< [rank |-> "unranked", minLevel |-> 1, maxLevel |-> 1, title |-> ""],
             [rank |-> "", minLevel |-> 2, maxLevel |-> 2, title |-> "Nameless"] >>),
     Some(<< >>)}

(***************************************************************************)
(* The calls.  Init draws the arguments; each action is one exported       *)
(* function applied to them, its return value left in result.  A behaviour *)
(* is one call: the functions keep no state between calls.                 *)
(***************************************************************************)
Init ==
    /\ defaultOptions = DEFAULT_OPTIONS
    /\ defaultRanks = DEFAULT_RANKS
    /\ op = "none"
    /\ result = 0
    /\ options \in OptionsInputs
    /\ customRanks \in RankTableInputs
    \* a custom table comes with options that set at most maxLevel
    /\ customRanks # None => options.baseXP = None /\ options.exponent = None
    /\ \/ level \in LevelInputs(options) /\ currentXP = 0
       \/ level = 0 /\ currentXP \in XPInputs(options)
    /\ pc = "idle"
    /\ search = [low |-> 0, high |-> 0, currentLevel |-> 0]
    /\ iterations = 0
    /\ addedXP = 0
    /\ awards = 0
    /\ remembered = None

Args == <<level, currentXP, options, customRanks>>
Loop == <<pc, search, iterations>>
Module == <<defaultOptions, defaultRanks>>
Award == <<addedXP, awards>>

\* getRequiredXP merging the options into the module's object:
\* Object.assign(DEFAULT_OPTIONS, options) in place of a fresh object.
CallGetRequiredXPAssigning ==
    /\ op = "none"
    /\ op' = "getRequiredXP"
    /\ result' = GetRequiredXP(level, options)
    /\ defaultOptions' = Spread(defaultOptions, options)
    /\ UNCHANGED <<Args, defaultRanks, Loop, Award, remembered>>

CallGetRequiredXP ==
    /\ op = "none"
    /\ op' = "getRequiredXP"
    /\ result' = GetRequiredXP(level, options)
    /\ UNCHANGED <<Args, Module, Loop, Award, remembered>>

CallCalculateLevel ==
    /\ op = "none"
    /\ op' = "calculateLevel"
    /\ result' = CalculateLevel(currentXP, options)
    /\ UNCHANGED <<Args, Module, Loop, Award, remembered>>

CallGetXPProgress ==
    /\ op = "none"
    /\ op' = "getXPProgress"
    /\ result' = GetXPProgress(currentXP, options)
    /\ UNCHANGED <<Args, Module, Loop, Award, remembered>>

CallGetXPToNextLevel ==
    /\ op = "none"
    /\ op' = "getXPToNextLevel"
    /\ result' = GetXPToNextLevel(currentXP, options)
    /\ UNCHANGED <<Args, Module, Loop, Award, remembered>>

CallGetRank ==
    /\ op = "none"
    /\ op' = "getRank"
    /\ result' = GetRank(level, customRanks)
    /\ UNCHANGED <<Args, Module, Loop, Award, remembered>>

CallGetRankTitle ==
    /\ op = "none"
    /\ op' = "getRankTitle"
    /\ result' = GetRankTitle(level, customRanks)
    /\ UNCHANGED <<Args, Module, Loop, Award, remembered>>

CallGetLevelInfo ==
    /\ op = "none"
    /\ op' = "getLevelInfo"
    /\ result' = GetLevelInfo(currentXP, options, customRanks)
    /\ UNCHANGED <<Args, Module, Loop, Award, remembered>>

Next ==
    \/ CallGetRequiredXP
    \/ CallCalculateLevel
    \/ CallGetXPProgress
    \/ CallGetXPToNextLevel
    \/ CallGetRank
    \/ CallGetRankTitle
    \/ CallGetLevelInfo

Spec == Init /\ [][Next]_vars

(***************************************************************************)
(* calculateLevel step by step: the entry (the early return for a negative *)
(* totalXP, or the initialisation of the locals), one action per iteration *)
(* of the while loop, and the return of currentLevel.                      *)
(***************************************************************************)
InitLoop ==
    /\ Init
    /\ level = 0
    /\ customRanks = None

LoopEnter ==
    /\ op = "none"
    /\ pc = "idle"
    /\ IF currentXP < 0
       THEN /\ pc' = "done"
            /\ op' = "calculateLevel"
            /\ result' = 1
            /\ UNCHANGED search
       ELSE /\ pc' = "loop"
            /\ search' = [low |-> 1,
                          high |-> Spread(defaultOptions, options).maxLevel,
                          currentLevel |-> 1]
            /\ UNCHANGED <<op, result>>
    /\ UNCHANGED <<Args, Module, iterations, Award, remembered>>

LoopIterate ==
    /\ pc = "loop"
    /\ search.low <= search.high
    /\ search' = SearchStep(search, currentXP, options)
    /\ iterations' = iterations + 1
    /\ UNCHANGED <<Args, Module, op, result, pc, Award, remembered>>

LoopExit ==
    /\ pc = "loop"
    /\ search.low > search.high
    /\ pc' = "done"
    /\ op' = "calculateLevel"
    /\ result' = search.currentLevel
    /\ UNCHANGED <<Args, Module, search, iterations, Award, remembered>>

NextLoop ==
    \/ LoopEnter
    \/ LoopIterate
    \/ LoopExit

SpecLoop == InitLoop /\ [][NextLoop]_vars

(***************************************************************************)
(* A player who is awarded XP again and again, as in example8_AwardXP:     *)
(* each award is one checkLevelUp(currentXP, addedXP, options) followed by *)
(* currentXP += addedXP.  The player starts with no XP or with the 800 XP  *)
(* of the example; an award is a small amount (one of them negative, a     *)
(* penalty) or the 300 XP of the example.                                  *)
(***************************************************************************)
startXP == 800
xpReward == 300
MaxAward == 2        \* small awards range over -1..MaxAward
MaxAwards == 3       \* a player is awarded XP at most MaxAwards times

AwardInputs == (-1..MaxAward) \cup {xpReward}

InitAward ==
    /\ defaultOptions = DEFAULT_OPTIONS
    /\ defaultRanks = DEFAULT_RANKS
    /\ op = "none"
    /\ result = 0
    /\ options \in OptionsInputs
    /\ customRanks = None
    /\ level = 0
    /\ currentXP \in {0, startXP}
    /\ pc = "idle"
    /\ search = [low |-> 0, high |-> 0, currentLevel |-> 0]
    /\ iterations = 0
    /\ addedXP = 0
    /\ awards = 0
    /\ remembered = None

AwardXP ==
    /\ awards < MaxAwards
    /\ \E a \in AwardInputs :
          /\ addedXP' = a
          /\ result' = CheckLevelUp(currentXP, a, options)
          /\ currentXP' = currentXP + a
    /\ op' = "checkLevelUp"
    /\ awards' = awards + 1
    /\ UNCHANGED <<level, options, customRanks, Module, Loop, remembered>>

NextAward == AwardXP

SpecAward == InitAward /\ [][NextAward]_vars

(***************************************************************************)
(* A caller that makes one call after another.  When a call has returned,  *)
(* the caller picks the arguments of its next call; it may keep the call   *)
(* that just returned, with its result, in `remembered`, to compare it     *)
(* with a later call of the same function on the same arguments.           *)
(***************************************************************************)
SeqOptionsInputs ==
    {NoOptions,
     [baseXP |-> Some(MaxBaseXP), exponent |-> Some(1), maxLevel |-> Some(MaxMaxLevel)]}

SeqLevelInputs == {1, MaxLevelArg}

SeqXPInputs == {0, MaxXP}

SeqRankTableInputs ==
    {None,
     Some(<< [rank |-> "low", minLevel |-> 1, maxLevel |-> 3, title |-> "Low"],
             [rank |-> "mid", minLevel |-> 2, maxLevel |-> 5, title |-> "Mid"] >>)}

InitSeq ==
    /\ defaultOptions = DEFAULT_OPTIONS
    /\ defaultRanks = DEFAULT_RANKS
    /\ op = "none"
    /\ result = 0
    /\ options \in SeqOptionsInputs
    /\ customRanks \in SeqRankTableInputs
    /\ level \in SeqLevelInputs
    /\ currentXP \in SeqXPInputs
    /\ pc = "idle"
    /\ search = [low |-> 0, high |-> 0, currentLevel |-> 0]
    /\ iterations = 0
    /\ addedXP = 0
    /\ awards = 0
    /\ remembered = None

\* The call that has just returned.
ThisCall ==
    [op |-> op, level |-> level, currentXP |-> currentXP,
     options |-> options, customRanks |-> customRanks, result |-> result]

NextCall ==
    /\ op # "none"
    /\ op' = "none"
    /\ result' = 0
    /\ options' \in SeqOptionsInputs
    /\ customRanks' \in SeqRankTableInputs
    /\ level' \in SeqLevelInputs
    /\ currentXP' \in SeqXPInputs
    /\ \/ remembered' = Some([call |-> ThisCall, interleaved |-> FALSE])
       \/ /\ remembered # None
          /\ remembered' = Some([remembered[1] EXCEPT !.interleaved = TRUE])
       \/ /\ remembered = None
          /\ UNCHANGED remembered
    /\ UNCHANGED <<Module, Loop, Award>>

NextSeq ==
    \/ CallGetRequiredXP
    \/ CallCalculateLevel
    \/ CallGetXPProgress
    \/ CallGetXPToNextLevel
    \/ CallGetRank
    \/ CallGetRankTitle
    \/ CallGetLevelInfo
    \/ NextCall

SpecSeq == InitSeq /\ [][NextSeq]_vars

(***************************************************************************)
(* Properties.  The resolved configuration of the call in the state:       *)
(***************************************************************************)
Cfg == Spread(DEFAULT_OPTIONS, options)
Req(l) == GetRequiredXP(l, options)

\* The linear-scan reference of calculateLevel.
LinearScan(totalXP) ==
    LET reached == {l \in 1..Cfg.maxLevel : Req(l) <= totalXP}
    IN  IF reached = {} THEN 1
        ELSE CHOOSE l \in reached : \A m \in reached : m <= l

\* C1: calculateLevel returns what the linear scan returns, the largest level
\* of 1..maxLevel whose required XP is at most totalXP, or 1 when there is
\* none (negative totalXP included); the result is in 1..maxLevel.
C1_CalculateLevelIsLinearScan ==
    op = "calculateLevel" =>
        /\ result = LinearScan(currentXP)
        /\ result \in 1..Cfg.maxLevel

\* C1 witness: a call that lands strictly between two levels above level 1.
C1_Witness ==
    /\ op = "calculateLevel"
    /\ result > 1 /\ result < Cfg.maxLevel
    /\ Req(result) < currentXP /\ currentXP < Req(result + 1)

\* r = floor(baseXP * l^exponent), the exponent e2 in halves: r^2 is at most
\* baseXP^2 * l^e2 and (r + 1)^2 is above it.
IsFloorPow(r, baseXP, l, e2) ==
    LET a == baseXP * Pow(l, e2 \div 2)
        b == baseXP * Pow(l, e2 - (e2 \div 2))
    IN  r >= 0 /\ SqLeq(r, a, b) /\ ~SqLeq(r + 1, a, b)

C3_InverseOnEveryLevel ==
    op = "calculateLevel" =>
        \A l \in 1..Cfg.maxLevel : currentXP = Req(l) => result = l

\* C3 amended: calculateLevel(getRequiredXP(L)) is the last level that needs
\* the same XP as L; it is L exactly when L is maxLevel or level L + 1 needs
\* more XP than L.
C3_InverseOnStrictLevels ==
    op = "calculateLevel" =>
        \A l \in 1..Cfg.maxLevel : currentXP = Req(l) =>
            /\ result >= l
            /\ Req(result) = Req(l)
            /\ result = Cfg.maxLevel \/ Req(result + 1) > Req(l)
            /\ (l = Cfg.maxLevel \/ Req(l + 1) > Req(l)) => result = l

\* C3 witness: the XP of a level below the cap, followed by a higher
\* requirement, is answered with that level.
C3_Witness ==
    /\ op = "calculateLevel"
    /\ result > 1 /\ result < Cfg.maxLevel
    /\ currentXP = Req(result) /\ Req(result + 1) > Req(result)

\* C4: getRequiredXP is a natural number, and for every level a below a
\* level b <= maxLevel (a below 1 included) getRequiredXP(a) is at most
\* getRequiredXP(b).
C4_Monotonic ==
    op = "getRequiredXP" =>
        /\ result \in Nat
        /\ level <= Cfg.maxLevel => \A a \in -2..(level - 1) : Req(a) <= result

\* C4 witness: a level of 2..maxLevel that needs strictly more than the
\* level before it.
C4_Witness ==
    /\ op = "getRequiredXP"
    /\ level >= 2 /\ level <= Cfg.maxLevel
    /\ Req(level - 1) < result

\* C5 as stated: progress is exactly 0 whenever the XP is exactly the
\* requirement of the level it gives.
C5_ZeroAtExactLevelXP ==
    op = "getXPProgress" =>
        (currentXP = Req(CalculateLevel(currentXP, options)) => result = Num(0))

\* C5 amended: progress is exactly 0 whenever the XP is exactly the
\* requirement of the level it gives and that level is below maxLevel.
C5_ZeroAtExactLevelXPBelowCap ==
    op = "getXPProgress" =>
        LET lvl == CalculateLevel(currentXP, options)
        IN  currentXP = Req(lvl) /\ lvl < Cfg.maxLevel => result = Num(0)

\* C5 witness: exactly the requirement of a level of 2..maxLevel-1, with
\* progress 0.
C5_Witness ==
    /\ op = "getXPProgress"
    /\ LET lvl == CalculateLevel(currentXP, options)
       IN  lvl > 1 /\ lvl < Cfg.maxLevel /\ currentXP = Req(lvl)
    /\ result = Num(0)

\* C6: progress is a number of [0, 100] (never NaN or infinite) for every
\* XP, and exactly 100 when the level is maxLevel or more.
C6_ProgressWithinBounds ==
    op = "getXPProgress" =>
        /\ result.den > 0
        /\ 0 <= result.num /\ result.num <= 100 * result.den
        /\ CalculateLevel(currentXP, options) >= Cfg.maxLevel => result = Num(100)

\* C6 witness: a progress strictly inside (0, 100), and below the first
\* requirement a progress clamped up to 0.
C6_Witness ==
    /\ op = "getXPProgress"
    /\ \/ 0 < result.num /\ result.num < 100 * result.den
       \/ currentXP < Req(1) /\ 1 < Cfg.maxLevel /\ result = Num(0)

\* C7 as stated: getXPToNextLevel is never negative, and is exactly 0
\* whenever the level is maxLevel.
C7_ZeroAtMaxLevel ==
    op = "getXPToNextLevel" =>
        /\ result >= 0
        /\ CalculateLevel(currentXP, options) = Cfg.maxLevel => result = 0

\* C8: calculateLevel is 1 for every XP of 0..getRequiredXP(2)-1 and for
\* every negative XP.
C8_FloorProperty ==
    op = "calculateLevel" =>
        /\ (0 <= currentXP /\ currentXP < Req(2)) => result = 1
        /\ currentXP < 0 => result = 1

\* C8 witness: an XP that is not negative and below the first requirement,
\* and one from the first requirement up to below the second.
C8_Witness ==
    /\ op = "calculateLevel"
    /\ result = 1
    /\ \/ 0 <= currentXP /\ currentXP < Req(1)
       \/ Req(1) <= currentXP /\ currentXP < Req(2)

\* C9: under the default configuration, for every level L of 1..maxLevel-1,
\* getXPToNextLevel at getRequiredXP(L) is getRequiredXP(L+1) -
\* getRequiredXP(L), and at an XP strictly between the two it is
\* getRequiredXP(L+1) - XP, strictly between 0 and that difference.
C9_XPToNextLevelDefault ==
    (op = "getXPToNextLevel" /\ Cfg = DEFAULT_OPTIONS) =>
        \A l \in 1..(Cfg.maxLevel - 1) :
            /\ currentXP = Req(l) => result = Req(l + 1) - Req(l)
            /\ (Req(l) < currentXP /\ currentXP < Req(l + 1)) =>
                  /\ result = Req(l + 1) - currentXP
                  /\ 0 < result /\ result < Req(l + 1) - Req(l)

\* C9 witness: the default configuration, an XP strictly between levels 99
\* and 100.
C9_Witness ==
    /\ op = "getXPToNextLevel"
    /\ options = NoOptions
    /\ Req(99) < currentXP /\ currentXP < Req(100)
    /\ result = Req(100) - currentXP

\* C10 as stated: getLevelInfo returns the level of calculateLevel, the XP it
\* was given, the requirements of the level and of the next, the progress of
\* getXPProgress, the distance of getXPToNextLevel, and the identifier and
\* title of the rank getRank finds, both null when it finds none.
C10_LevelInfoSnapshot ==
    op = "getLevelInfo" =>
        LET lvl == CalculateLevel(currentXP, options)
            rank == GetRank(lvl, customRanks)
        IN  /\ result.level = lvl
            /\ result.currentXP = currentXP
            /\ result.requiredXP = Req(lvl)
            /\ result.nextLevelXP = Req(lvl + 1)
            /\ result.progress = GetXPProgress(currentXP, options)
            /\ result.xpToNextLevel = GetXPToNextLevel(currentXP, options)
            /\ rank = None => result.rank = None /\ result.rankTitle = None
            /\ rank # None => /\ result.rank = Some(rank[1].rank)
                              /\ result.rankTitle = Some(rank[1].title)

\* The table a rank call reads, and the matches of a level in it.
Table == IF customRanks # None THEN customRanks[1] ELSE DEFAULT_RANKS
Matches(lvl) ==
    {i \in 1..Len(Table) : Table[i].minLevel <= lvl /\ lvl <= Table[i].maxLevel}
FirstMatch(lvl) ==
    IF Matches(lvl) = {} THEN None
    ELSE Some(Table[CHOOSE i \in Matches(lvl) : \A j \in Matches(lvl) : i <= j])

\* C11: getRank returns the first entry, in table order, whose range holds
\* the level, and null when there is none; getRankTitle returns the title of
\* that entry, and the empty string when there is none.
C11_FirstMatchingRank ==
    /\ op = "getRank" => result = FirstMatch(level)
    /\ op = "getRankTitle" =>
          result = IF FirstMatch(level) = None THEN "" ELSE FirstMatch(level)[1].title

\* C11 witness: a level that two entries of the table hold, answered with the
\* earlier one.
C11_Witness ==
    /\ op = "getRank"
    /\ Cardinality(Matches(level)) > 1
    /\ result = Some(Table[1])

\* [...DEFAULT_RANKS].sort((a, b) => a.minLevel - b.minLevel), by insertion.
RECURSIVE Insert(_, _)
Insert(r, sorted) ==
    IF sorted = << >> THEN << r >>
    ELSE IF r.minLevel < Head(sorted).minLevel THEN << r >> \o sorted
    ELSE << Head(sorted) >> \o Insert(r, Tail(sorted))

RECURSIVE SortByMinLevel(_)
SortByMinLevel(ranks) ==
    IF ranks = << >> THEN << >>
    ELSE Insert(ranks[Len(ranks)], SortByMinLevel(SubSeq(ranks, 1, Len(ranks) - 1)))

\* C12: in every getRank call with the built-in table, the table sorted by
\* minLevel has each range start right after the one before, from 1 to 100;
\* the call finds a rank exactly for the levels 1..100, and so does every
\* level from -2 to 150.
C12_DefaultRanksCoverage ==
    (op = "getRank" /\ customRanks = None) =>
        LET sorted == SortByMinLevel(DEFAULT_RANKS)
        IN  /\ \A i \in 1..(Len(sorted) - 1) :
                  sorted[i].maxLevel + 1 = sorted[i + 1].minLevel
            /\ sorted[1].minLevel = 1
            /\ sorted[Len(sorted)].maxLevel = 100
            /\ (result # None) <=> (level \in 1..100)
            /\ \A l \in -2..150 : (GetRank(l, None) # None) <=> (l \in 1..100)

\* C12 witness: the built-in table asked for level 100, the last it covers.
C12_Witness ==
    /\ op = "getRank"
    /\ customRanks = None
    /\ level = 100
    /\ result # None /\ result[1].rank = "master"

\* C13 as stated (README, Quick Start): by default calculateLevel(1000) is 8
\* and getLevelInfo(1000) has level 8, requiredXP 724, nextLevelXP 972,
\* xpToNextLevel 248 and rank 'trainee'.
C13_ReadmeQuickStart ==
    (options = NoOptions /\ customRanks = None /\ currentXP = 1000) =>
        /\ op = "calculateLevel" => result = 8
        /\ op = "getLevelInfo" =>
              /\ result.level = 8
              /\ result.requiredXP = 724
              /\ result.nextLevelXP = 972
              /\ result.xpToNextLevel = 248
              /\ result.rank = Some("trainee")

\* C14: every operation is a pure function of its arguments.  Over any
\* sequence of calls, no call changes the contents of DEFAULT_OPTIONS or
\* DEFAULT_RANKS or the arguments the caller passed (its options and its rank
\* table among them), and a call of the same function on the same arguments
\* as a remembered earlier call returns the same result, whatever calls ran
\* in between.
SameCall(c) ==
    /\ c.op = op
    /\ c.level = level
    /\ c.currentXP = currentXP
    /\ c.options = options
    /\ c.customRanks = customRanks

C14_PureFunctions ==
    /\ [][op = "none" /\ op' # "none" => UNCHANGED <<Module, Args>>]_vars
    /\ [](defaultOptions = DEFAULT_OPTIONS /\ defaultRanks = DEFAULT_RANKS)
    /\ [](op # "none" /\ remembered # None /\ SameCall(remembered[1].call) =>
            result = remembered[1].call.result)

\* C14 witness: getLevelInfo called again with the options and the rank table
\* of a remembered call, after other calls ran in between.
C14_Witness ==
    /\ op = "getLevelInfo"
    /\ options # NoOptions
    /\ customRanks # None
    /\ remembered # None
    /\ remembered[1].interleaved
    /\ SameCall(remembered[1].call)
    /\ result = remembered[1].call.result

\* The case of C15: the level is below maxLevel and the next level needs no
\* more XP than the current one.
FlatStep ==
    LET lvl == CalculateLevel(currentXP, options)
    IN  lvl < Cfg.maxLevel /\ Req(lvl + 1) - Req(lvl) <= 0

InLoop == pc = "loop" \/ (pc = "done" /\ currentXP >= 0)

\* C16 as stated: the loop runs at most log2(maxLevel) iterations, that is
\* 2^iterations <= maxLevel.
C16_AtMostLog2Iterations ==
    Pow(2, iterations) <= Cfg.maxLevel

\* C16 amended: the loop runs at most floor(log2(maxLevel)) + 1 iterations,
\* that is 2^iterations <= 2 * maxLevel, and the step-by-step run returns
\* what calculateLevel returns.
C16_AtMostLog2Plus1Iterations ==
    /\ Pow(2, iterations) <= 2 * Cfg.maxLevel
    /\ pc = "done" => result = CalculateLevel(currentXP, options)

\* C16 witness: maxLevel 100 and a search that returns after 7 iterations,
\* floor(log2(100)) + 1.
C16_Witness ==
    /\ pc = "done"
    /\ Cfg.maxLevel = 100
    /\ iterations = 7

\* C17: at the start of every iteration and at the exit of the loop,
\* 1 <= low <= high + 1 <= maxLevel + 1, every level below low needs at most
\* totalXP, every level above high needs more than totalXP, and currentLevel
\* is max(1, low - 1); each iteration makes high - low strictly smaller.
C17_LoopInvariant ==
    /\ [](InLoop =>
            /\ 1 <= search.low
            /\ search.low <= search.high + 1
            /\ search.high + 1 <= Cfg.maxLevel + 1
            /\ \A l \in 1..(search.low - 1) : Req(l) <= currentXP
            /\ \A l \in (search.high + 1)..Cfg.maxLevel : Req(l) > currentXP
            /\ search.currentLevel = IF search.low - 1 > 1 THEN search.low - 1 ELSE 1)
    /\ [][iterations' = iterations + 1 =>
             search'.high - search'.low < search.high - search.low]_vars

\* C17 witness: the start of a third or later iteration, with both ends of
\* the range moved.
C17_Witness ==
    /\ pc = "loop"
    /\ search.low <= search.high
    /\ iterations >= 2
    /\ search.low > 1 /\ search.high < Cfg.maxLevel

(***************************************************************************)
(* C18.  calculateLevel is non-decreasing in XP (every configuration of    *)
(* the inputs has baseXP > 0, exponent >= 0 and maxLevel >= 1): an award   *)
(* of addedXP >= 0 never lowers the level of the player, and the           *)
(* checkLevelUp of such an award returns the levels before and after it,   *)
(* levelsGained = newLevel - previousLevel >= 0, and leveledUp exactly     *)
(* when newLevel > previousLevel.                                          *)
(***************************************************************************)
C18_LevelNeverDecreases ==
    /\ [](op = "checkLevelUp" /\ addedXP >= 0 =>
            /\ result.previousLevel = CalculateLevel(currentXP - addedXP, options)
            /\ result.newLevel = CalculateLevel(currentXP, options)
            /\ result.levelsGained = result.newLevel - result.previousLevel
            /\ result.levelsGained >= 0
            /\ result.leveledUp <=> result.newLevel > result.previousLevel)
    /\ [][addedXP' >= 0 /\ awards' = awards + 1 =>
            /\ currentXP' >= currentXP
            /\ CalculateLevel(currentXP', options') >= CalculateLevel(currentXP, options)]_vars

\* A second or later award, of some XP, that takes the player up by more
\* than one level.
C18_Witness ==
    /\ op = "checkLevelUp"
    /\ awards > 1
    /\ addedXP > 0
    /\ result.leveledUp
    /\ result.levelsGained > 1

====
